---- MODULE Spec2Model ----
(***************************************************************************)
(* ptgen - partition table generator (src/src/ptgen.c).                    *)
(*                                                                         *)
(* One run of the program: the configuration and the request list are the  *)
(* globals main() has filled in; gen_ptable() or gen_gptable() then lays   *)
(* the partitions out, builds the table records and writes them.           *)
(* Sizes and starts are kept in KiB as in struct partinfo; sector numbers  *)
(* are 512-byte sectors.  All sector numbers of the model stay far below   *)
(* 2^31, so the 32/64-bit fields of the records hold them unchanged.       *)
(***************************************************************************)
EXTENDS Integers, Naturals, Sequences, FiniteSets, TLC

VARIABLES
    (* the globals main() sets from the command line *)
    heads, sectors, kb_align, active, ignore_null_sized_partition,
    use_guid_partition_table, gpt_split_image, gpt_alternate,
    gpt_first_entry_sector, gpt_last_usable_sector,
    parts,      \* parts[0 .. nr-1] of the source is parts[1 .. nr] here
    nr,         \* the number of requests (main's part)
    guid,       \* the disk identifier
    (* the locals of gen_ptable / gen_gptable *)
    pc,         \* "layout", "write" or "done"
    i, sect, pte, gpte, pmbr, gpth, end,
    (* what the run produced *)
    opened,     \* the output files opened (created or truncated), in order
    written,    \* the write() calls that succeeded, in order
    out,        \* the numbers printed on stdout, in order
    ret,        \* the return value of gen_ptable / gen_gptable
    err         \* which diagnostic was printed

cfgvars == << heads, sectors, kb_align, active, ignore_null_sized_partition,
              use_guid_partition_table, gpt_split_image, gpt_alternate,
              gpt_first_entry_sector, nr, guid >>
vars == << cfgvars, gpt_last_usable_sector, parts, pc, i, sect, pte, gpte, pmbr,
           gpth, end, opened, written, out, ret, err >>

(* ------------------------------------------------------------------ *)
(* Program constants                                                   *)
(* ------------------------------------------------------------------ *)
GPT_HEADER_SIZE == 92
GPT_ENTRY_SIZE == 128
GPT_ENTRY_MAX == 128
GPT_ENTRY_NAME_SIZE == 72
DISK_SECTOR_SIZE == 512
GPT_SIZE == (GPT_ENTRY_SIZE * GPT_ENTRY_MAX) \div DISK_SECTOR_SIZE
GPT_ATTR_PLAT_REQUIRED == 1
GPT_ATTR_LEGACY_BOOT == 4
GPT_HEADER_SECTOR == 1
GPT_FIRST_ENTRY_SECTOR == 2
MBR_ENTRY_MAX == 4
MBR_DISK_SIGNATURE_OFFSET == 440
MBR_PARTITION_ENTRY_OFFSET == 446
MBR_BOOT_SIGNATURE_OFFSET == 510
GPT_HEADS == 254
GPT_SECTORS == 63

(* ------------------------------------------------------------------ *)
(* Bit operations on naturals                                          *)
(* ------------------------------------------------------------------ *)
RECURSIVE BitAnd(_, _)
BitAnd(a, b) ==
    IF a = 0 \/ b = 0 THEN 0
    ELSE (a % 2) * (b % 2) + 2 * BitAnd(a \div 2, b \div 2)

RECURSIVE BitOr(_, _)
BitOr(a, b) ==
    IF a = 0 THEN b
    ELSE IF b = 0 THEN a
    ELSE (IF a % 2 = 1 \/ b % 2 = 1 THEN 1 ELSE 0) + 2 * BitOr(a \div 2, b \div 2)

RECURSIVE BitXor(_, _)
BitXor(a, b) ==
    IF a = 0 THEN b
    ELSE IF b = 0 THEN a
    ELSE ((a + b) % 2) + 2 * BitXor(a \div 2, b \div 2)

Min(a, b) == IF a < b THEN a ELSE b

(* little-endian bytes of v in a field of n bytes *)
RECURSIVE LE(_, _)
LE(v, n) == IF n = 0 THEN <<>> ELSE <<v % 256>> \o LE(v \div 256, n - 1)

(* ------------------------------------------------------------------ *)
(* Geometry                                                            *)
(* ------------------------------------------------------------------ *)
(* convert the sector number into a CHS value; the three bytes are    *)
(* unsigned char                                                        *)
to_chs(sct) ==
    LET s == (sct % sectors) + 1
        h == (sct \div sectors) % heads
        c == (sct \div sectors) \div heads
    IN  << h % 256,
           BitOr(s, BitAnd(c \div 4, 192)) % 256,
           BitAnd(c, 255) >>

(* a variant of round_to_cyl: a sector number on a cylinder boundary stays *)
round_to_cyl_ceil(sct) ==
    LET cyl_size == heads * sectors
    IN  ((sct + cyl_size - 1) \div cyl_size) * cyl_size

(* round the sector number up to the next cylinder *)
round_to_cyl(sct) ==
    LET cyl_size == heads * sectors
    IN  sct + cyl_size - (sct % cyl_size)

(* a variant of round_to_kb: without the "- 1" *)
round_to_kb_next(sct) == ((sct \div kb_align) + 1) * kb_align

(* round the sector number up to the kb_align boundary *)
round_to_kb(sct) == (((sct - 1) \div kb_align) + 1) * kb_align

(* ------------------------------------------------------------------ *)
(* GUIDs: guid_t is 16 bytes, GUID_INIT stores a, b, c little-endian   *)
(* ------------------------------------------------------------------ *)
GUID_PARTITION_BASIC_DATA ==
    <<162, 160, 208, 235, 229, 185, 51, 68, 135, 192, 104, 182, 183, 38, 153, 199>>
GUID_PARTITION_BIOS_BOOT ==
    <<72, 97, 104, 33, 73, 100, 111, 110, 116, 78, 101, 101, 100, 69, 70, 73>>
GUID_PARTITION_LINUX_FS_GUID ==
    <<175, 61, 198, 15, 131, 132, 114, 71, 142, 121, 61, 105, 216, 71, 125, 228>>
ZERO_GUID == [k \in 1..16 |-> 0]

(* the disk identifier main() starts from, with last byte b *)
DiskGuid(b) ==
    <<79, 87, 82, 84, 17, 34, 51, 68, 85, 102, 119, 136, 153, 170, 187, b>>

(* guid.b[sizeof(guid_t) - 1] += n, on a uint8_t *)
guid_add(g, n) == [g EXCEPT ![16] = (@ + n) % 256]

(* ------------------------------------------------------------------ *)
(* CRC32 (cyg_crc32_accumulate): reflected, polynomial 0xEDB88320,     *)
(* table driven.  A 32-bit value is its four bytes, least significant  *)
(* first, as cpu_to_le32 stores it.                                     *)
(* ------------------------------------------------------------------ *)
xor8 == [a \in 0..255 |-> [b \in 0..255 |-> BitXor(a, b)]]

(* one shift of the bit-serial form on <<high 16 bits, low 16 bits>> *)
CrcShift(c) ==
    LET sh == << c[1] \div 2, (c[2] \div 2) + (c[1] % 2) * 32768 >>
    IN  IF c[2] % 2 = 1 THEN << BitXor(sh[1], 60856), BitXor(sh[2], 33568) >> ELSE sh

RECURSIVE CrcBits(_, _)
CrcBits(c, k) == IF k = 0 THEN c ELSE CrcBits(CrcShift(c), k - 1)

crc32_tab ==
    [b \in 0..255 |->
        LET p == CrcBits(<<0, b>>, 8)
        IN  << p[2] % 256, p[2] \div 256, p[1] % 256, p[1] \div 256 >>]

(* crc = crc32_tab[(crc ^ b) & 0xff] ^ (crc >> 8) *)
CrcByte(crc, b) ==
    LET t == crc32_tab[xor8[crc[1]][b]]
    IN  << xor8[crc[2]][t[1]], xor8[crc[3]][t[2]], xor8[crc[4]][t[3]], t[4] >>

(* bytes from..to of buf, in order, in runs of size bytes (runs of 1024 *)
(* made of runs of 32 made of single bytes, to bound the nesting)       *)
RECURSIVE CrcRuns(_, _, _, _, _)
CrcRuns(crc, buf, from, to, size) ==
    IF from > to THEN crc
    ELSE LET upto == Min(from + size - 1, to)
             nxt  == IF size = 1 THEN CrcByte(crc, buf[from])
                     ELSE CrcRuns(crc, buf, from, upto, size \div 32)
         IN  IF nxt[1] < 0 THEN nxt ELSE CrcRuns(nxt, buf, upto + 1, to, size)

cyg_crc32_accumulate(crc, buf) == CrcRuns(crc, buf, 1, Len(buf), 1024)

(* cyg_crc32_accumulate(~0L, buf, len) ^ ~0L *)
gpt_crc32(buf) ==
    LET r == cyg_crc32_accumulate(<<255, 255, 255, 255>>, buf)
    IN  << 255 - r[1], 255 - r[2], 255 - r[3], 255 - r[4] >>

(* ------------------------------------------------------------------ *)
(* init_utf16: UTF-8 to UTF-16 code units                              *)
(* ------------------------------------------------------------------ *)
(* str[n] of the memory image mem (0-based); mem holds the string, its *)
(* terminating NUL and whatever follows it in memory                    *)
ByteAt(mem, n) == IF n + 1 <= Len(mem) THEN mem[n + 1] ELSE 0

(* one pass of the loop body at input offset n: the unit stored, the    *)
(* number of input bytes consumed, and whether the loop returns         *)
utf16_step(mem, n) ==
    LET b == ByteAt(mem, n)
    IN  IF b = 0 THEN [unit |-> 0, adv |-> 0, stop |-> TRUE]
        ELSE IF BitAnd(b, 128) = 0
             THEN [unit |-> b, adv |-> 1, stop |-> FALSE]
        ELSE IF BitAnd(b, 224) = 192
             THEN [unit |-> BitOr(BitAnd(b, 31) * 64, BitAnd(ByteAt(mem, n + 1), 63)),
                   adv |-> 2, stop |-> FALSE]
        ELSE IF BitAnd(b, 240) = 224
             THEN [unit |-> BitOr(BitOr(BitAnd(b, 15) * 4096,
                                        BitAnd(ByteAt(mem, n + 1), 63) * 64),
                                  BitAnd(ByteAt(mem, n + 2), 63)),
                   adv |-> 3, stop |-> FALSE]
        ELSE [unit |-> 63, adv |-> 1, stop |-> FALSE]

(* a variant of utf16_loop: "i <= bufsize" as the loop condition *)
RECURSIVE utf16_loop_incl(_, _, _, _, _)
utf16_loop_incl(mem, bufsize, bi, n, w) ==
    IF bi > bufsize THEN w
    ELSE LET st == utf16_step(mem, n)
         IN  IF st.stop THEN Append(w, st.unit)
             ELSE utf16_loop_incl(mem, bufsize, bi + 1, n + st.adv, Append(w, st.unit))

(* the loop from buf index bi and input offset n; w is the list of the  *)
(* units stored so far, buf[0], buf[1], ... in order                    *)
RECURSIVE utf16_loop(_, _, _, _, _)
utf16_loop(mem, bufsize, bi, n, w) ==
    IF bi >= bufsize THEN w
    ELSE LET st == utf16_step(mem, n)
         IN  IF st.stop THEN Append(w, st.unit)
             ELSE utf16_loop(mem, bufsize, bi + 1, n + st.adv, Append(w, st.unit))

init_utf16(mem, bufsize) == utf16_loop(mem, bufsize, 0, 0, <<>>)

(* ------------------------------------------------------------------ *)
(* Records                                                             *)
(* ------------------------------------------------------------------ *)
ZeroPte == [active |-> 0, chs_start |-> <<0, 0, 0>>, type |-> 0,
            chs_end |-> <<0, 0, 0>>, start |-> 0, length |-> 0]

ZeroGpte == [type |-> ZERO_GUID, guid |-> ZERO_GUID, start |-> 0, end |-> 0,
             attr |-> 0, name |-> <<>>]

ZeroGpth == [self |-> 0, alternate |-> 0, first_usable |-> 0, last_usable |-> 0,
             first_entry |-> 0, disk_guid |-> ZERO_GUID, entry_num |-> 0,
             entry_size |-> 0, size |-> 0, crc32 |-> <<0, 0, 0, 0>>, entry_crc32 |-> <<0, 0, 0, 0>>]

(* gpte[] after the memset holds only zero slots; the variable gpte     *)
(* maps the slots stored to since then, every other slot is ZeroGpte    *)
GpteAt(tab, k) == IF k \in DOMAIN tab THEN tab[k] ELSE ZeroGpte
GptePut(tab, k, e) == [x \in (DOMAIN tab) \cup {k} |-> IF x = k THEN e ELSE tab[x]]

(* a request as main() stores it in parts[] *)
Part(start, size, hybrid, has_name, name, required) ==
    [start |-> start, size |-> size, type |-> 131, hybrid |-> hybrid,
     has_name |-> has_name, name |-> name, required |-> required,
     guid |-> GUID_PARTITION_LINUX_FS_GUID, gattr |-> 0, actual_start |-> 0]

(* parts[k] of the source, k from 0; the array is zero-initialised *)
ZeroPart == [start |-> 0, size |-> 0, type |-> 0, hybrid |-> FALSE,
             has_name |-> FALSE, name |-> <<>>, required |-> FALSE,
             guid |-> ZERO_GUID, gattr |-> 0, actual_start |-> 0]
PartsAt(k) == IF k + 1 <= Len(parts) THEN parts[k + 1] ELSE ZeroPart

(* ------------------------------------------------------------------ *)
(* Byte images of the GPT records (struct gpth, struct gpte, packed)   *)
(* ------------------------------------------------------------------ *)
gpth_bytes(h) ==
    <<69, 70, 73, 32, 80, 65, 82, 84>>          \* signature "EFI PART"
    \o <<0, 0, 1, 0>>                           \* revision 0x00010000
    \o LE(h.size, 4) \o h.crc32 \o <<0, 0, 0, 0>>
    \o LE(h.self, 8) \o LE(h.alternate, 8)
    \o LE(h.first_usable, 8) \o LE(h.last_usable, 8)
    \o h.disk_guid \o LE(h.first_entry, 8)
    \o LE(h.entry_num, 4) \o LE(h.entry_size, 4) \o h.entry_crc32

(* the name field: GPT_ENTRY_NAME_SIZE bytes, the stored units first *)
RECURSIVE name_bytes(_, _)
name_bytes(w, k) ==
    IF k > GPT_ENTRY_NAME_SIZE \div 2 THEN <<>>
    ELSE LE(IF k <= Len(w) THEN w[k] ELSE 0, 2) \o name_bytes(w, k + 1)

gpte_bytes(e) ==
    e.type \o e.guid \o LE(e.start, 8) \o LE(e.end, 8) \o LE(e.attr, 8)
    \o name_bytes(e.name, 1)

(* the image of the entry array the checksum runs over: the slots that *)
(* were stored to, in slot order, each as its slot number and its 128  *)
(* bytes (the all-zero slots between them are left out)                *)
RECURSIVE gpte_span_bytes(_, _, _)
gpte_span_bytes(tab, lo, hi) ==
    IF lo > hi THEN <<>>
    ELSE IF lo = hi
    THEN (IF lo \in DOMAIN tab THEN <<lo>> \o gpte_bytes(tab[lo]) ELSE <<>>)
    ELSE LET mid == (lo + hi) \div 2
         IN  gpte_span_bytes(tab, lo, mid) \o gpte_span_bytes(tab, mid + 1, hi)

gpte_array_bytes(tab) == gpte_span_bytes(tab, 0, GPT_ENTRY_MAX - 1)

(* ------------------------------------------------------------------ *)
(* Bounds and the inputs a run is started with                         *)
(* ------------------------------------------------------------------ *)
MaxParts == 3
SIGNATURE == 1414682447       \* 0x5452574F, 'OWRT'

SeqsUpTo(S, n) == UNION { [1..k -> S] : k \in 0..n }

(* sizes and explicit starts in KiB; 0 is "no explicit start".  17 KiB is *)
(* sector 34, the first usable sector of a GPT with the default layout    *)
Sizes == {0, 1, 3}
Starts == {0, 40}
PlainParts == { Part(st, sz, FALSE, FALSE, <<>>, FALSE) : st \in Starts, sz \in Sizes }

(* what follows a name's terminating NUL in memory *)
Garbage == { <<>>, <<65>>, <<168, 66>> }

(* struct gpth gpth = { ... } *)
GpthInit(first_entry, g) ==
    [ZeroGpth EXCEPT !.size = GPT_HEADER_SIZE, !.self = GPT_HEADER_SECTOR,
                     !.first_usable = first_entry + GPT_SIZE,
                     !.first_entry = first_entry, !.disk_guid = g,
                     !.entry_num = GPT_ENTRY_MAX, !.entry_size = GPT_ENTRY_SIZE]

(* the state gen_ptable / gen_gptable starts its loop in: c is the     *)
(* configuration main() has validated, ps the request list             *)
Start(c, ps) ==
    /\ use_guid_partition_table = c.gpt
    /\ heads = IF c.gpt THEN GPT_HEADS ELSE c.heads
    /\ sectors = IF c.gpt THEN GPT_SECTORS ELSE c.sectors
    /\ kb_align = c.kb_align
    /\ active = c.active
    /\ ignore_null_sized_partition = c.ignore
    /\ gpt_split_image = c.split
    /\ gpt_alternate = c.alternate
    /\ gpt_first_entry_sector = c.first_entry
    /\ gpt_last_usable_sector = c.last_usable
    /\ parts = ps
    /\ nr = Len(ps)
    /\ guid = c.guid
    /\ pc = "layout"
    /\ i = 0
    /\ sect = IF c.gpt THEN GPT_SIZE + c.first_entry ELSE 0
    /\ pte = [k \in 0..(MBR_ENTRY_MAX - 1) |-> ZeroPte]
    /\ gpte = [k \in {} |-> ZeroGpte]
    /\ pmbr = 1
    /\ gpth = IF c.gpt THEN GpthInit(c.first_entry, c.guid) ELSE ZeroGpth
    /\ end = 0
    /\ opened = <<>>
    /\ written = <<>>
    /\ out = <<>>
    /\ ret = -1
    /\ err = "none"

MbrConfig(h, s, al, ign, act) ==
    [gpt |-> FALSE, heads |-> h, sectors |-> s, kb_align |-> al, active |-> act,
     ignore |-> ign, split |-> FALSE, alternate |-> FALSE,
     first_entry |-> GPT_FIRST_ENTRY_SECTOR, last_usable |-> 0, guid |-> DiskGuid(0)]

GptConfig(al, ign, act, alt, split, first_entry, last_usable, g) ==
    [gpt |-> TRUE, heads |-> GPT_HEADS, sectors |-> GPT_SECTORS, kb_align |-> al,
     active |-> act, ignore |-> ign, split |-> split, alternate |-> alt,
     first_entry |-> first_entry, last_usable |-> last_usable, guid |-> g]

(* -b sets both flags, -d sets the backup flag and may set the size *)
GptOutputs ==
    { [alternate |-> FALSE, split |-> FALSE, first_entry |-> 2, last_usable |-> 0],
      [alternate |-> TRUE,  split |-> FALSE, first_entry |-> 2, last_usable |-> 46],
      [alternate |-> TRUE,  split |-> TRUE,  first_entry |-> 4, last_usable |-> 0] }

(* heads and sectors per track of the MBR runs *)
Geometries == { <<16, 63>>, <<2, 2>> }

Configs ==
    { MbrConfig(g[1], g[2], al, ign, 1) :
          g \in Geometries, al \in {0, 2, 16}, ign \in BOOLEAN }
    \cup { GptConfig(al, ign, 1, o.alternate, o.split, o.first_entry, o.last_usable,
                     DiskGuid(0)) :
             al \in {0, 2, 16}, ign \in BOOLEAN, o \in GptOutputs }

Init ==
    \E c \in Configs :
        \E ps \in SeqsUpTo(PlainParts, IF c.gpt THEN MaxParts ELSE Min(MaxParts, MBR_ENTRY_MAX)) :
            Start(c, ps)

(* ------------------------------------------------------------------ *)
(* The layout loops                                                    *)
(* ------------------------------------------------------------------ *)
(* a variant of LayoutFail: the output file is opened before the loop *)
LayoutFailAfterOpen(e, tab) ==
    /\ pc' = "done"
    /\ err' = e
    /\ pte' = tab
    /\ opened' = << "" >>
    /\ UNCHANGED << cfgvars, gpt_last_usable_sector, parts, i, sect, gpte, pmbr,
                    gpth, end, written, out, ret >>

(* fprintf(stderr, ...); return ret;  inside the loop; tab is pte[] as the *)
(* pass has left it                                                        *)
LayoutFail(e, tab) ==
    /\ pc' = "done"
    /\ err' = e
    /\ pte' = tab
    /\ UNCHANGED << cfgvars, gpt_last_usable_sector, parts, i, sect, gpte, pmbr,
                    gpth, end, opened, written, out, ret >>

(* if (!parts[i].size) { if (ignore_null_sized_partition) continue; ... } *)
LayoutSkip ==
    /\ i' = i + 1
    /\ UNCHANGED << cfgvars, gpt_last_usable_sector, parts, pc, sect, pte, gpte, pmbr,
                    gpth, end, opened, written, out, ret, err >>

(* the start gen_ptable gives partition p when the cursor is at cur *)
PtableStart(p, cur) ==
    IF p.start # 0 THEN p.start * 2
    ELSE IF kb_align # 0 THEN round_to_kb(cur)
    ELSE cur

(* sect after the partition starting at start: its end, rounded up to a *)
(* cylinder when there is no alignment                                   *)
PtableNextSect(p, start) ==
    IF kb_align = 0 THEN round_to_cyl(start + p.size * 2) ELSE start + p.size * 2

(* one pass of gen_ptable's for loop *)
GenPtableIter ==
    /\ ~use_guid_partition_table
    /\ pc = "layout"
    /\ i < nr
    /\ LET p     == PartsAt(i)
           cur   == sect + sectors
           start == PtableStart(p, cur)
           nsect == PtableNextSect(p, start)
           len   == nsect - start
       IN  IF p.size = 0
           THEN IF ignore_null_sized_partition THEN LayoutSkip
                ELSE LayoutFail("InvalidPartition", pte)
           ELSE IF p.start # 0 /\ p.start * 2 < cur
           THEN LayoutFail("OverlapError",
                           [pte EXCEPT ![i] = [@ EXCEPT
                               !.active = IF (i + 1) = active THEN 128 ELSE 0,
                               !.type = p.type]])
           ELSE /\ pte' = [pte EXCEPT ![i] =
                              [active    |-> IF (i + 1) = active THEN 128 ELSE 0,
                               chs_start |-> to_chs(start),
                               type      |-> p.type,
                               chs_end   |-> to_chs(start + len - 1),
                               start     |-> start,
                               length    |-> len]]
                /\ sect' = nsect
                /\ out' = out \o << start * DISK_SECTOR_SIZE, len * DISK_SECTOR_SIZE >>
                /\ i' = i + 1
                /\ UNCHANGED << cfgvars, gpt_last_usable_sector, parts, pc, gpte, pmbr,
                                gpth, end, opened, written, ret, err >>

(* a variant of GptableStart: the explicit start taken as sectors *)
GptableStartSectors(p, cur) ==
    IF p.start # 0 THEN p.start
    ELSE IF kb_align # 0 THEN round_to_kb(cur)
    ELSE cur

(* the start gen_gptable gives partition p when the cursor is at cur *)
GptableStart(p, cur) ==
    IF p.start # 0 THEN p.start * 2
    ELSE IF kb_align # 0 THEN round_to_kb(cur)
    ELSE cur

(* a variant of PartGuid: the last byte saturates at 255 *)
PartGuidSaturating(g, k) == [g EXCEPT ![16] = Min(@ + k + 1, 255)]

(* gpte[i].guid = guid; gpte[i].guid.b[sizeof(guid_t) - 1] += i + 1; *)
PartGuid(g, k) == guid_add(g, k + 1)

(* the attribute bits of entry k (0-based) *)
GpteAttr(p, k) ==
    BitOr(BitOr(p.gattr, IF (k + 1) = active THEN GPT_ATTR_LEGACY_BOOT ELSE 0),
          IF p.required THEN GPT_ATTR_PLAT_REQUIRED ELSE 0)

(* the hybrid MBR entry of the partition k (0-based) at start .. nsect - 1 *)
HybridPte(p, k, start, nsect) ==
    [[pte EXCEPT ![pmbr] = [@ EXCEPT !.active = IF (k + 1) = active THEN 128 ELSE 0,
                                     !.type = p.type,
                                     !.start = start,
                                     !.length = nsect - start]]
          EXCEPT ![1] = [@ EXCEPT !.chs_start = to_chs(start),
                                  !.chs_end = to_chs(nsect - 1)]]

(* one pass of gen_gptable's for loop; tail is what lies behind the     *)
(* name's terminating NUL, which init_utf16 reads when the name ends in *)
(* the middle of a multi-byte sequence                                   *)
GenGptableIter ==
    /\ use_guid_partition_table
    /\ pc = "layout"
    /\ i < nr
    /\ \E tail \in Garbage :
       LET p     == PartsAt(i)
           start == GptableStart(p, sect)
           nsect == start + p.size * 2
       IN  IF p.size = 0
           THEN IF ignore_null_sized_partition THEN LayoutSkip
                ELSE LayoutFail("InvalidPartition", pte)
           ELSE IF p.start # 0 /\ p.start * 2 < sect
           THEN LayoutFail("OverlapError", pte)
           ELSE IF gpt_last_usable_sector > 0 /\ nsect > gpt_last_usable_sector + 1
           THEN LayoutFail("OutOfSpace", pte)
           ELSE /\ parts' = [parts EXCEPT ![i + 1].actual_start = start]
                /\ gpte' = GptePut(gpte, i,
                              [type  |-> p.guid,
                               guid  |-> PartGuid(guid, i),
                               start |-> start,
                               end   |-> nsect - 1,
                               attr  |-> GpteAttr(p, i),
                               name  |-> IF p.has_name
                                         THEN init_utf16(p.name \o <<0>> \o tail,
                                                         GPT_ENTRY_NAME_SIZE \div 2)
                                         ELSE <<>>])
                /\ sect' = nsect
                /\ IF p.hybrid /\ pmbr < MBR_ENTRY_MAX
                   THEN pte' = HybridPte(p, i, start, nsect) /\ pmbr' = pmbr + 1
                   ELSE UNCHANGED << pte, pmbr >>
                /\ out' = out \o << start * DISK_SECTOR_SIZE,
                                    (nsect - start) * DISK_SECTOR_SIZE >>
                /\ i' = i + 1
                /\ UNCHANGED << cfgvars, gpt_last_usable_sector, pc, gpth, end,
                                opened, written, ret, err >>

(* ------------------------------------------------------------------ *)
(* Output                                                              *)
(* ------------------------------------------------------------------ *)
OpenOp(f) == [op |-> "open", file |-> f, off |-> 0, kind |-> "open", val |-> <<>>]
WriteOp(f, off, kind, val) ==
    [op |-> "write", file |-> f, off |-> off, kind |-> kind, val |-> val]

(* the first n system calls of ops succeed: the files opened and the   *)
(* writes done                                                          *)
Opened(ops, n) ==
    LET done == SubSeq(ops, 1, n)
        opens == SelectSeq(done, LAMBDA o : o.op = "open")
    IN  [k \in 1..Len(opens) |-> opens[k].file]
Written(ops, n) == SelectSeq(SubSeq(ops, 1, n), LAMBDA o : o.op = "write")

(* the system calls a run is made to fail at: none (0), any open(), the *)
(* first write() and the last one                                       *)
FailPoints(ops) ==
    {0, 2, Len(ops)} \cup { k \in 1..Len(ops) : ops[k].op = "open" }

(* open(), the three writes of the boot sector *)
MbrOps(f) ==
    << OpenOp(f),
       WriteOp(f, MBR_DISK_SIGNATURE_OFFSET, "signature", SIGNATURE),
       WriteOp(f, MBR_PARTITION_ENTRY_OFFSET, "pte", pte),
       WriteOp(f, MBR_BOOT_SIGNATURE_OFFSET, "bootsig", <<85, 170>>) >>

(* gen_ptable after its loop: open the file and write the boot sector *)
GenPtableWrite ==
    /\ ~use_guid_partition_table
    /\ pc = "layout"
    /\ i = nr
    /\ \E failAt \in FailPoints(MbrOps("")) :
       LET ops == MbrOps("")
           n   == IF failAt = 0 THEN Len(ops) ELSE failAt - 1
       IN  /\ opened' = Opened(ops, n)
           /\ written' = Written(ops, n)
           /\ ret' = IF failAt = 0 THEN 0 ELSE -1
           /\ err' = IF failAt = 0 THEN "none" ELSE "IOError"
           /\ pc' = "done"
           /\ UNCHANGED << cfgvars, gpt_last_usable_sector, parts, i, sect, pte, gpte,
                           pmbr, gpth, end, out >>

(* the entry for the gap before the first partition, in the last slot *)
GapEntry(tab) ==
    IF PartsAt(0).start # 0
       /\ PartsAt(0).actual_start > gpt_first_entry_sector + GPT_SIZE
    THEN GptePut(tab, GPT_ENTRY_MAX - 1,
             [GpteAt(tab, GPT_ENTRY_MAX - 1) EXCEPT
                 !.start = gpt_first_entry_sector + GPT_SIZE,
                 !.end = PartsAt(0).actual_start - 1,
                 !.type = GUID_PARTITION_BIOS_BOOT,
                 !.guid = guid_add(guid, GPT_ENTRY_MAX)])
    ELSE tab

(* a variant of LastUsable: one sector short *)
LastUsableShort == IF gpt_last_usable_sector = 0 THEN sect - 2 ELSE gpt_last_usable_sector

(* if (gpt_last_usable_sector == 0) gpt_last_usable_sector = sect - 1; *)
LastUsable == IF gpt_last_usable_sector = 0 THEN sect - 1 ELSE gpt_last_usable_sector

(* the protective MBR entry *)
ProtectivePte(e) ==
    [pte EXCEPT ![0] = [@ EXCEPT !.type = 238,
                                 !.start = GPT_HEADER_SECTOR,
                                 !.length = e + 1 - GPT_HEADER_SECTOR,
                                 !.chs_start = to_chs(GPT_HEADER_SECTOR),
                                 !.chs_end = to_chs(e)]]

(* gpth.crc32 = gpt_crc32(&gpth, GPT_HEADER_SIZE), over the header as it is *)
HeaderCrc(h) == [h EXCEPT !.crc32 = gpt_crc32(gpth_bytes(h))]

(* the primary header: last_usable, alternate, then the two checksums *)
PrimaryHeader(h, tab, last, e) ==
    HeaderCrc([h EXCEPT !.last_usable = last,
                        !.alternate = e,
                        !.entry_crc32 = gpt_crc32(gpte_array_bytes(tab))])

(* gen_gptable between its loop and the first open() *)
GenGptableFinish ==
    /\ use_guid_partition_table
    /\ pc = "layout"
    /\ i = nr
    /\ LET tab  == GapEntry(gpte)
           last == LastUsable
           e    == last + GPT_SIZE + 1
       IN  /\ gpte' = tab
           /\ gpt_last_usable_sector' = last
           /\ end' = e
           /\ pte' = ProtectivePte(e)
           /\ gpth' = PrimaryHeader(gpth, tab, last, e)
           /\ pc' = "write"
           /\ UNCHANGED << cfgvars, parts, i, sect, pmbr, opened, written, out, ret, err >>

(* a variant of BackupHeader: gpth.crc32 is not cleared before it is    *)
(* computed again                                                       *)
BackupHeaderStaleCrc(h, e) ==
    HeaderCrc([h EXCEPT !.self = h.alternate,
                        !.alternate = h.self,
                        !.first_entry = e - (GPT_ENTRY_SIZE * GPT_ENTRY_MAX) \div DISK_SECTOR_SIZE])

(* a variant of BackupHeader: first_entry is left as in the primary header *)
BackupHeaderSameEntries(h, e) ==
    HeaderCrc([h EXCEPT !.self = h.alternate,
                        !.alternate = h.self,
                        !.crc32 = <<0, 0, 0, 0>>])

(* the alternate header: swap(self, alternate), first_entry, crc32 = 0, *)
(* crc32 again                                                          *)
BackupHeader(h, e) ==
    HeaderCrc([h EXCEPT !.self = h.alternate,
                        !.alternate = h.self,
                        !.first_entry = e - (GPT_ENTRY_SIZE * GPT_ENTRY_MAX) \div DISK_SECTOR_SIZE,
                        !.crc32 = <<0, 0, 0, 0>>])

(* the system calls up to the primary entry array *)
PrimaryOps ==
    LET f == IF gpt_split_image THEN ".start" ELSE ""
    IN  MbrOps(f)
        \o << WriteOp(f, DISK_SECTOR_SIZE, "gpth", gpth),
              WriteOp(f, 2 * DISK_SECTOR_SIZE - 1, "zero", <<0>>) >>
        \o (IF ~gpt_split_image \/ gpt_first_entry_sector = GPT_FIRST_ENTRY_SECTOR
            THEN << WriteOp(f, gpt_first_entry_sector * DISK_SECTOR_SIZE, "gpte", gpte) >>
            ELSE << OpenOp(".entry"), WriteOp(".entry", 0, "gpte", gpte) >>)

(* the system calls of the alternate table, h the alternate header *)
BackupOps(h) ==
    IF ~gpt_alternate THEN <<>>
    ELSE IF ~gpt_split_image
    THEN << WriteOp("", end * DISK_SECTOR_SIZE - GPT_ENTRY_SIZE * GPT_ENTRY_MAX,
                    "gpte", gpte),
            WriteOp("", end * DISK_SECTOR_SIZE, "gpth", h),
            WriteOp("", (end + 1) * DISK_SECTOR_SIZE - 1, "zero", <<0>>) >>
    ELSE << OpenOp(".end"),
            WriteOp(".end", 0, "gpte", gpte),
            WriteOp(".end", GPT_SIZE * DISK_SECTOR_SIZE, "gpth", h),
            WriteOp(".end", (GPT_SIZE + 1) * DISK_SECTOR_SIZE - 1, "zero", <<0>>) >>

(* gen_gptable from the first open() to its return *)
GenGptableWrite ==
    /\ use_guid_partition_table
    /\ pc = "write"
    /\ \E h \in { IF gpt_alternate THEN BackupHeader(gpth, end) ELSE gpth } :
       \E ops \in { PrimaryOps \o BackupOps(h) } :
       \E failAt \in FailPoints(ops) :
       LET n        == IF failAt = 0 THEN Len(ops) ELSE failAt - 1
           atBackup == gpt_alternate /\ n >= Len(PrimaryOps)
       IN  /\ opened' = Opened(ops, n)
           /\ written' = Written(ops, n)
           /\ gpth' = IF atBackup THEN h ELSE gpth
           /\ end' = IF atBackup /\ gpt_split_image THEN GPT_SIZE ELSE end
           /\ ret' = IF failAt = 0 THEN 0 ELSE -1
           /\ err' = IF failAt = 0 THEN "none" ELSE "IOError"
           /\ pc' = "done"
           /\ UNCHANGED << cfgvars, gpt_last_usable_sector, parts, i, sect, pte, gpte,
                           pmbr, out >>

Next ==
    \/ GenPtableIter
    \/ GenPtableWrite
    \/ GenGptableIter
    \/ GenGptableFinish
    \/ GenGptableWrite

Spec == Init /\ [][Next]_vars

(* ------------------------------------------------------------------ *)
(* GPT runs with names, a gap before the first partition, and every    *)
(* way the tables are written                                           *)
(* ------------------------------------------------------------------ *)
MaxGptParts == 2

NamedParts ==
    { Part(st, 1, FALSE, n[1], n[2], FALSE) :
          st \in Starts, n \in { <<FALSE, <<>> >>, <<TRUE, <<65, 66>> >> } }

GptTables ==
    { [alternate |-> FALSE, split |-> FALSE, first_entry |-> 2, last_usable |-> 0],
      [alternate |-> TRUE,  split |-> FALSE, first_entry |-> 2, last_usable |-> 0],
      [alternate |-> TRUE,  split |-> FALSE, first_entry |-> 4, last_usable |-> 200],
      [alternate |-> TRUE,  split |-> TRUE,  first_entry |-> 2, last_usable |-> 0],
      [alternate |-> TRUE,  split |-> TRUE,  first_entry |-> 4, last_usable |-> 0] }

InitGpt ==
    \E o \in GptTables :
        \E ps \in SeqsUpTo(NamedParts, MaxGptParts) :
            Start(GptConfig(0, FALSE, 1, o.alternate, o.split, o.first_entry,
                            o.last_usable, DiskGuid(0)), ps)

NextGpt ==
    \/ GenGptableIter
    \/ GenGptableFinish
    \/ GenGptableWrite

SpecGpt == InitGpt /\ [][NextGpt]_vars

(* ------------------------------------------------------------------ *)
(* GPT runs with hybrid requests                                       *)
(* ------------------------------------------------------------------ *)
MaxHybridParts == 4

HybridParts == { Part(0, sz, hy, FALSE, <<>>, FALSE) : sz \in {0, 1}, hy \in BOOLEAN }

InitHybrid ==
    \E act \in 0..2 :
        \E ps \in SeqsUpTo(HybridParts, MaxHybridParts) :
            Start(GptConfig(0, TRUE, act, FALSE, FALSE, 2, 0, DiskGuid(0)), ps)

SpecHybrid == InitHybrid /\ [][NextGpt]_vars

(* ------------------------------------------------------------------ *)
(* GPT runs with one named partition                                   *)
(* ------------------------------------------------------------------ *)
(* n bytes, all c *)
Fill(n, c) == [k \in 1..n |-> c]

(* UTF-8 names: ASCII of several lengths, 2- and 3-byte sequences, a   *)
(* 4-byte sequence (U+1F600) alone and inside ASCII, and names cut in  *)
(* the middle of a sequence                                             *)
NameInputs ==
    { <<>>, <<65>>, <<97, 98, 99>>, <<126, 32, 48>>,
      Fill(35, 65), Fill(36, 66), Fill(37, 67), Fill(40, 68),
      <<195, 169>>, <<97, 195, 169, 98>>, <<226, 130, 172>>, <<97, 226, 130, 172, 98>>,
      <<240, 159, 152, 128>>, <<97, 240, 159, 152, 128, 98>>,
      <<97, 98, 240, 159, 152, 128>>, <<240, 159, 152, 128, 99, 100>>,
      Fill(33, 69) \o <<240, 159, 152, 128>>,
      <<97, 240, 159, 152, 128, 98, 240, 159, 152, 128>>,
      <<195>>, <<97, 226>>, <<226, 130>>, <<128>>, <<97, 255, 98>> }

InitNames ==
    \E nm \in NameInputs :
        \E o \in { t \in GptTables : ~t.split } :
            Start(GptConfig(0, FALSE, 1, o.alternate, o.split, o.first_entry,
                            o.last_usable, DiskGuid(0)),
                  << Part(0, 1, FALSE, TRUE, nm, FALSE) >>)

SpecNames == InitNames /\ [][NextGpt]_vars

(* ------------------------------------------------------------------ *)
(* GPT runs that fill the entry array                                  *)
(* ------------------------------------------------------------------ *)
(* last bytes of the disk identifier *)
GuidBytes == {0, 1, 127, 128, 200, 255}

InitFull ==
    \E b \in GuidBytes :
        \E n \in {GPT_ENTRY_MAX - 1, GPT_ENTRY_MAX} :
            Start(GptConfig(0, FALSE, 1, FALSE, FALSE, 2, 0, DiskGuid(b)),
                  [k \in 1..n |-> Part(0, 1, FALSE, FALSE, <<>>, FALSE)])

SpecFull == InitFull /\ [][NextGpt]_vars

(* ================================================================== *)
(* Properties                                                          *)
(* ================================================================== *)
Max(S) == CHOOSE x \in S : \A y \in S : y <= x

LayoutErrors == { "InvalidPartition", "OverlapError", "OutOfSpace" }

(* the requests the loop has placed so far, by index from 0, and the   *)
(* range <<start, end>> (end exclusive) each was given                  *)
Ranges ==
    IF use_guid_partition_table
    THEN [k \in (DOMAIN gpte) \cap (0..(nr - 1)) |-> << gpte[k].start, gpte[k].end + 1 >>]
    ELSE [k \in { x \in 0..(MBR_ENTRY_MAX - 1) : pte[x].length # 0 } |->
             << pte[k].start, pte[k].start + pte[k].length >>]

NonSkipped == { k \in 0..(nr - 1) : PartsAt(k).size # 0 }

(* C1: in MBR and in GPT mode, the ranges [start, end) given to the      *)
(* non-skipped requests are non-empty, hold the requested size, and are  *)
(* strictly increasing in request order without overlap: start < end   *)
(* for each, and end_j <= start_k for j before k.  When the loop has     *)
(* gone through the whole list, every non-skipped request has a range.   *)
C1_NonOverlapping ==
    /\ \A j \in DOMAIN Ranges :
          /\ Ranges[j][1] < Ranges[j][2]
          /\ Ranges[j][2] - Ranges[j][1] >= PartsAt(j).size * 2
          /\ \A k \in DOMAIN Ranges : j < k => Ranges[j][2] <= Ranges[k][1]
    /\ DOMAIN Ranges \subseteq NonSkipped
    /\ i = nr => DOMAIN Ranges = NonSkipped

(* a GPT run that succeeded with an alignment, a skipped request, an     *)
(* explicit start and a start the cursor gave                            *)
C1_Witness ==
    /\ use_guid_partition_table /\ pc = "done" /\ ret = 0
    /\ kb_align = 16 /\ nr = 3
    /\ PartsAt(0).start # 0 /\ PartsAt(1).size = 0 /\ PartsAt(2).start = 0
    /\ DOMAIN Ranges = {0, 2}

(* ------------------------------------------------------------------ *)
(* MBR mode, no alignment, no explicit start *)
Unaligned ==
    /\ ~use_guid_partition_table
    /\ kb_align = 0
    /\ \A k \in 1..Len(parts) : parts[k].start = 0

PlacedBefore(k) == { j \in DOMAIN Ranges : j < k }

(* the statement that each partition starts exactly at the cylinder-     *)
(* rounded end of the one before it, the first at sector "sectors"         *)
C2_StartsAtRoundedEnd ==
    Unaligned =>
        \A k \in DOMAIN Ranges :
            IF PlacedBefore(k) = {}
            THEN Ranges[k][1] = sectors
            ELSE Ranges[k][1] = Ranges[Max(PlacedBefore(k))][2]

(* C2: in MBR mode with no alignment and no explicit start, sect starts  *)
(* at 0 and every partition starts one track ("sectors") behind it: the  *)
(* first at sector "sectors", each later one at the cylinder-rounded end  *)
(* of the one before it plus "sectors".  After a partition sect is the     *)
(* smallest multiple of heads * sectors strictly greater than the          *)
(* partition's end (an end on a cylinder boundary moves a whole cylinder). *)
C2_TrackAfterRoundedEnd ==
    Unaligned =>
        /\ sect = IF DOMAIN Ranges = {} THEN 0 ELSE Ranges[Max(DOMAIN Ranges)][2]
        /\ \A k \in DOMAIN Ranges :
              LET cyl_size == heads * sectors
                  raw      == Ranges[k][1] + PartsAt(k).size * 2
              IN  /\ Ranges[k][2] % cyl_size = 0
                  /\ Ranges[k][2] > raw
                  /\ Ranges[k][2] - cyl_size <= raw
                  /\ Ranges[k][1] = (IF PlacedBefore(k) = {} THEN 0
                                     ELSE Ranges[Max(PlacedBefore(k))][2]) + sectors

(* two partitions written, the first ending on a cylinder boundary *)
C2_Witness ==
    /\ Unaligned /\ pc = "done" /\ ret = 0
    /\ DOMAIN Ranges = {0, 1}
    /\ (Ranges[0][1] + PartsAt(0).size * 2) % (heads * sectors) = 0

(* ------------------------------------------------------------------ *)
(* every entry of the table lies in the usable range of the header *)
C3_Within ==
    (use_guid_partition_table /\ pc \in {"write", "done"} /\ err \notin LayoutErrors) =>
        \A k \in DOMAIN gpte :
            /\ gpth.first_usable <= gpte[k].start
            /\ gpte[k].start <= gpte[k].end
            /\ gpte[k].end <= gpth.last_usable

(* a pass of the loop for a request behind the configured last usable  *)
(* sector fails, and the step behind the loop sets last_usable           *)
C3_Step ==
    /\ ( /\ use_guid_partition_table /\ pc = "layout" /\ i < nr
         /\ gpt_last_usable_sector > 0
         /\ PartsAt(i).size # 0
         /\ ~(PartsAt(i).start # 0 /\ PartsAt(i).start * 2 < sect)
         /\ (IF PartsAt(i).start # 0 THEN PartsAt(i).start * 2
             ELSE IF kb_align # 0 THEN ((sect + kb_align - 1) \div kb_align) * kb_align
             ELSE sect) + PartsAt(i).size * 2 - 1 > gpt_last_usable_sector )
       => (pc' = "done" /\ err' = "OutOfSpace" /\ ret' # 0 /\ gpte' = gpte)
    /\ (use_guid_partition_table /\ pc = "layout" /\ pc' = "write")
       => gpth'.last_usable = (IF gpt_last_usable_sector = 0 THEN sect - 1
                               ELSE gpt_last_usable_sector)

(* C3: in GPT mode a request that would end behind a configured last     *)
(* usable sector fails the run with OutOfSpace; with no disk size the    *)
(* last usable sector is the final cursor minus one; and on every run    *)
(* whose layout succeeds each entry has                                   *)
(* first_usable <= start <= end <= last_usable.                           *)
C3_LastUsable == []C3_Within /\ [][C3_Step]_vars

(* a run with a disk size that succeeded, its last entry ending one     *)
(* sector before the last usable one                                     *)
C3_Witness ==
    /\ use_guid_partition_table /\ pc = "done" /\ ret = 0
    /\ gpth.last_usable = 46 /\ gpth.first_usable = 34
    /\ DOMAIN gpte = {0, 2}
    /\ gpte[2].end = 45

(* ------------------------------------------------------------------ *)
ZeroCrc == <<0, 0, 0, 0>>

Records(kind) == SelectSeq(written, LAMBDA w : w.kind = kind)

(* C4: for every GPT header written (the primary one and the alternate   *)
(* one), the stored crc32 is the CRC32 of the 92 header bytes written    *)
(* with the crc32 field zero, and the stored entry_crc32 is the CRC32 of  *)
(* the entry array written.                                               *)
C4_CrcConsistent ==
    \A a \in 1..Len(Records("gpth")) :
        LET h == Records("gpth")[a].val
        IN  /\ h.crc32 = gpt_crc32(gpth_bytes([h EXCEPT !.crc32 = ZeroCrc]))
            /\ \A b \in 1..Len(Records("gpte")) :
                  h.entry_crc32 = gpt_crc32(gpte_array_bytes(Records("gpte")[b].val))

(* both tables written, with a named entry and the entry for the gap *)
C4_Witness ==
    /\ pc = "done" /\ ret = 0 /\ gpt_alternate
    /\ Len(Records("gpth")) = 2 /\ Len(Records("gpte")) = 2
    /\ (GPT_ENTRY_MAX - 1) \in DOMAIN gpte
    /\ \E k \in DOMAIN gpte : gpte[k].name # <<>>

(* ------------------------------------------------------------------ *)
(* C5: when a request fails the layout (size 0 without the skip option,  *)
(* explicit start before the cursor, end behind the configured last      *)
(* usable sector), in MBR and in GPT mode and at any position of the     *)
(* list, the run returns failure and no output file has been opened and  *)
(* nothing has been written.                                             *)
C5_NoOutputOnLayoutError ==
    err \in LayoutErrors =>
        /\ pc = "done"
        /\ ret # 0
        /\ opened = <<>>
        /\ written = <<>>

(* the third request fails after two were placed *)
C5_Witness ==
    /\ err = "OverlapError" /\ pc = "done"
    /\ i = 2 /\ DOMAIN Ranges = {0, 1}

(* ------------------------------------------------------------------ *)
(* the placed requests with the hybrid flag, and the place of request k *)
(* among them, counted from 1                                            *)
HybridPlaced == { k \in DOMAIN Ranges : PartsAt(k).hybrid }
HybridRank(k) == Cardinality({ j \in HybridPlaced : j <= k })

(* the MBR entry that mirrors the GPT entry of request k *)
MirrorOf(k) ==
    [active    |-> IF (k + 1) = active THEN 128 ELSE 0,
     chs_start |-> to_chs(gpte[k].start),
     type      |-> PartsAt(k).type,
     chs_end   |-> to_chs(gpte[k].end),
     start     |-> gpte[k].start,
     length    |-> gpte[k].end - gpte[k].start + 1]

(* C6: the k-th placed hybrid request (k = 1, 2, 3) is mirrored in MBR   *)
(* slot k with its type, LBA start and length, the active byte and the   *)
(* CHS values of its own first and last sector; a fourth one gets no     *)
(* slot and no error; the slots not used stay zero and slot 0 is the     *)
(* protective 0xEE entry.                                                 *)
C6_HybridMirror ==
    /\ \A k \in HybridPlaced :
          HybridRank(k) < MBR_ENTRY_MAX => pte[HybridRank(k)] = MirrorOf(k)
    /\ \A m \in 1..(MBR_ENTRY_MAX - 1) :
          m > Cardinality(HybridPlaced) => pte[m] = ZeroPte
    /\ err \notin LayoutErrors
    /\ pc \in {"write", "done"} =>
          (pte[0].type = 238 /\ pte[0].start = GPT_HEADER_SECTOR /\ pte[0].active = 0)

(* two hybrid requests placed: slot 2 has the LBA values of the second   *)
(* one and no CHS values, slot 1 has the CHS values of the second one    *)
C6_ChsInSlotOne ==
    /\ pc = "done" /\ ret = 0
    /\ Cardinality(HybridPlaced) = 2
    /\ \E k \in HybridPlaced :
          /\ HybridRank(k) = 2
          /\ pte[2].start = gpte[k].start
          /\ pte[2].chs_start = <<0, 0, 0>> /\ pte[2].chs_end = <<0, 0, 0>>
          /\ pte[1].chs_start = to_chs(gpte[k].start)
          /\ pte[1].chs_start # to_chs(pte[1].start)

(* ------------------------------------------------------------------ *)
(* C7: with the alternate table, the alternate header is the primary one *)
(* with self and alternate swapped (self = last_usable + 33,             *)
(* alternate = 1), first_entry = self - 32 and crc32 computed again; the *)
(* entry array written with it is the one written with the primary       *)
(* header, and in a single image it is written to the sectors            *)
(* first_entry .. self - 1, right behind the last usable sector, and the *)
(* header to sector self.                                                 *)
C7_BackupMirrors ==
    /\ (gpt_alternate /\ ret = 0) => Len(Records("gpth")) = 2
    /\ Len(Records("gpth")) = 2 =>
          LET P  == Records("gpth")[1]
              B  == Records("gpth")[2]
              PA == Records("gpte")[1]
              BA == Records("gpte")[2]
          IN  /\ B.val.self = P.val.alternate
              /\ B.val.self = P.val.last_usable + GPT_SIZE + 1
              /\ B.val.alternate = P.val.self
              /\ B.val.alternate = GPT_HEADER_SECTOR
              /\ B.val.first_entry = B.val.self - GPT_SIZE
              /\ B.val.first_entry = P.val.last_usable + 1
              /\ B.val.crc32 = gpt_crc32(gpth_bytes([B.val EXCEPT !.crc32 = ZeroCrc]))
              /\ [B.val EXCEPT !.self = P.val.self, !.alternate = P.val.alternate,
                               !.first_entry = P.val.first_entry,
                               !.crc32 = P.val.crc32] = P.val
              /\ BA.val = PA.val
              /\ ~gpt_split_image =>
                    /\ BA.file = P.file /\ B.file = P.file
                    /\ BA.off = B.val.first_entry * DISK_SECTOR_SIZE
                    /\ B.off = B.val.self * DISK_SECTOR_SIZE

(* a single image with both tables, the primary entry array not at its   *)
(* default sector, two entries                                            *)
C7_Witness ==
    /\ pc = "done" /\ ret = 0 /\ gpt_alternate /\ ~gpt_split_image
    /\ gpt_first_entry_sector = 4
    /\ Len(Records("gpth")) = 2
    /\ Records("gpth")[2].val.self = 233
    /\ DOMAIN Ranges = {0, 1}

(* ------------------------------------------------------------------ *)
(* the units stored before the terminating 0 *)
Text(w) == IF w # <<>> /\ w[Len(w)] = 0 THEN SubSeq(w, 1, Len(w) - 1) ELSE w

(* UTF-16 code units (no surrogates) back to UTF-8 *)
utf8_of_unit(u) ==
    IF u < 128 THEN << u >>
    ELSE IF u < 2048 THEN << 192 + (u \div 64), 128 + (u % 64) >>
    ELSE << 224 + (u \div 4096), 128 + ((u \div 64) % 64), 128 + (u % 64) >>

RECURSIVE utf8_of_units(_)
utf8_of_units(w) ==
    IF w = <<>> THEN <<>> ELSE utf8_of_unit(w[1]) \o utf8_of_units(Tail(w))

IsAscii(str) == \A k \in 1..Len(str) : str[k] >= 1 /\ str[k] <= 127

(* a byte none of the three patterns of init_utf16 matches *)
NoPattern(b) == b >= 128 /\ BitAnd(b, 224) # 192 /\ BitAnd(b, 240) # 224

(* ASCII and well-formed 4-byte sequences only *)
RECURSIVE AsciiAndFourByte(_)
AsciiAndFourByte(str) ==
    IF str = <<>> THEN TRUE
    ELSE IF str[1] >= 1 /\ str[1] <= 127 THEN AsciiAndFourByte(Tail(str))
    ELSE /\ Len(str) >= 4
         /\ BitAnd(str[1], 248) = 240
         /\ \A k \in 2..4 : BitAnd(str[k], 192) = 128
         /\ AsciiAndFourByte(SubSeq(str, 5, Len(str)))

(* str with every 4-byte sequence replaced by one '?' *)
RECURSIVE OneForFour(_)
OneForFour(str) ==
    IF str = <<>> THEN <<>>
    ELSE IF str[1] <= 127 THEN << str[1] >> \o OneForFour(Tail(str))
    ELSE << 63 >> \o OneForFour(SubSeq(str, 5, Len(str)))

MaxUnits == GPT_ENTRY_NAME_SIZE \div 2

(* the statement that a 4-byte sequence becomes a single '?' and the     *)
(* characters behind it follow directly                                   *)
C8_OneUnitPerSequence ==
    (0 \in DOMAIN gpte /\ AsciiAndFourByte(PartsAt(0).name)
       /\ Len(PartsAt(0).name) <= MaxUnits) =>
        Text(gpte[0].name) = OneForFour(PartsAt(0).name)

(* C8: init_utf16 stores at most 36 units for any name; an ASCII name of *)
(* at most 36 characters decodes back to itself; and every byte that     *)
(* matches none of the three patterns, so each of the four bytes of a    *)
(* 4-byte sequence, gives one '?' and uses up that one byte: a 4-byte    *)
(* sequence becomes four '?' units, the characters around it kept.       *)
C8_OneUnitPerByte ==
    0 \in DOMAIN gpte =>
        LET str == PartsAt(0).name
            w   == gpte[0].name
        IN  /\ Len(w) <= MaxUnits
            /\ (IsAscii(str) /\ Len(str) <= MaxUnits) => utf8_of_units(Text(w)) = str
            /\ (IsAscii(str) /\ Len(str) > MaxUnits) =>
                   utf8_of_units(Text(w)) = SubSeq(str, 1, MaxUnits)
            /\ ((\A k \in 1..Len(str) : (str[k] >= 1 /\ str[k] <= 127) \/ NoPattern(str[k]))
                  /\ Len(str) <= MaxUnits) =>
                   Text(w) = [k \in 1..Len(str) |-> IF str[k] <= 127 THEN str[k] ELSE 63]

(* a 4-byte sequence between two ASCII characters, converted *)
C8_Witness ==
    /\ 0 \in DOMAIN gpte
    /\ PartsAt(0).name = <<97, 240, 159, 152, 128, 98>>
    /\ gpte[0].name = <<97, 63, 63, 63, 63, 98, 0>>

(* ------------------------------------------------------------------ *)
(* a pass of either loop that places request i with no explicit start   *)
(* under an alignment A > 0: the start is a multiple of A, not before    *)
(* the cursor, and less than A behind it                                  *)
C9_Step ==
    ( /\ pc = "layout" /\ i < nr /\ i' = i + 1
      /\ PartsAt(i).size # 0 /\ PartsAt(i).start = 0
      /\ kb_align > 0 )
    => LET cur == IF use_guid_partition_table THEN sect ELSE sect + sectors
           st  == IF use_guid_partition_table THEN gpte'[i].start ELSE pte'[i].start
       IN  /\ st % kb_align = 0
           /\ st >= cur
           /\ st - kb_align < cur

(* C9: with an alignment unit A > 0, in MBR and in GPT mode, every start *)
(* that does not come from an explicit start is a multiple of A and is   *)
(* the smallest multiple of A that is >= the cursor it was rounded from. *)
C9_AlignedStart == [][C9_Step]_vars

(* the first GPT entry moved from sector 34 to 48 by an alignment of 16, *)
(* the second one left at the cursor, which is a multiple of 16           *)
C9_Witness ==
    /\ use_guid_partition_table /\ kb_align = 16
    /\ DOMAIN Ranges = {0, 1}
    /\ PartsAt(0).start = 0 /\ PartsAt(1).start = 0
    /\ Ranges[0] = <<48, 50>>
    /\ Ranges[1][1] = 64

(* ------------------------------------------------------------------ *)
(* C10: the identifiers of the entries of up to 128 requests are the     *)
(* disk identifier with its last byte increased by the request's index   *)
(* from 1, modulo 256, and are pairwise distinct.                         *)
C10_DistinctGuids ==
    /\ \A k \in DOMAIN Ranges :
          /\ \A b \in 1..15 : gpte[k].guid[b] = guid[b]
          /\ gpte[k].guid[16] = (guid[16] + k + 1) % 256
    /\ \A j, k \in DOMAIN Ranges : j # k => gpte[j].guid # gpte[k].guid
    /\ Cardinality({ gpte[k].guid : k \in DOMAIN Ranges }) = Cardinality(DOMAIN Ranges)

(* 128 entries, the last byte wrapping around *)
C10_Witness ==
    /\ nr = GPT_ENTRY_MAX /\ pc = "done" /\ ret = 0
    /\ Cardinality(DOMAIN Ranges) = GPT_ENTRY_MAX
    /\ guid[16] = 200
    /\ gpte[GPT_ENTRY_MAX - 1].guid[16] = 72

(* ------------------------------------------------------------------ *)
(* MBR runs over the geometries main() accepts (heads > 0, sectors > 0) *)
(* with partitions below and above cylinder 1023                        *)
(* ------------------------------------------------------------------ *)
MaxChsParts == 2

(* heads and sectors per track; 2 x 2 puts sector 6000 in cylinder 1500 *)
ChsGeometries == { <<16, 63>>, <<2, 2>>, <<2, 64>>, <<255, 63>> }

ChsParts == { Part(st, sz, FALSE, FALSE, <<>>, FALSE) : st \in {0, 3000}, sz \in {1, 3} }

InitChs ==
    \E g \in ChsGeometries :
        \E al \in {0, 2} :
            \E ps \in SeqsUpTo(ChsParts, MaxChsParts) :
                Start(MbrConfig(g[1], g[2], al, FALSE, 1), ps)

NextMbr ==
    \/ GenPtableIter
    \/ GenPtableWrite

SpecChs == InitChs /\ [][NextMbr]_vars

(* chs is the standard packing of sector sct: the head, the sector in   *)
(* the track from 1 in the low 6 bits of byte 1, bits 9..8 of the        *)
(* cylinder in its top 2 bits, the low 8 bits of the cylinder in byte 2, *)
(* the cylinder cut to 10 bits                                            *)
StandardChs(chs, sct) ==
    LET cyl == (sct \div (heads * sectors)) % 1024
    IN  /\ chs[1] = (sct \div sectors) % heads
        /\ chs[2] % 64 = (sct % sectors) + 1
        /\ chs[2] \div 64 = cyl \div 256
        /\ chs[3] = cyl % 256

(* C11: for every sector and every geometry main() accepts, to_chs gives *)
(* the standard packing: the CHS start and end of every MBR entry are    *)
(* the packing of its first and of its last sector.                       *)
C11_StandardPacking ==
    \A k \in DOMAIN Ranges :
        /\ StandardChs(pte[k].chs_start, Ranges[k][1])
        /\ StandardChs(pte[k].chs_end, Ranges[k][2] - 1)

(* 64 sectors per track: the last sector of the entry is sector 64 of    *)
(* its track, cylinder 0; byte 1 of chs_end is 64, which reads as sector *)
(* 0 of cylinder 256                                                      *)
C11_SectorInCylinderBits ==
    /\ ~use_guid_partition_table /\ pc = "done" /\ ret = 0
    /\ heads = 2 /\ sectors = 64
    /\ 0 \in DOMAIN Ranges
    /\ Ranges[0] = <<64, 128>>
    /\ pte[0].chs_end = <<1, 64, 0>>

(* ------------------------------------------------------------------ *)
(* GPT runs up to the 128 requests main() accepts, the first one with   *)
(* and without an explicit start                                        *)
(* ------------------------------------------------------------------ *)
InitFiller ==
    \E n \in {2, GPT_ENTRY_MAX - 1, GPT_ENTRY_MAX} :
        \E st \in Starts :
            \E ign \in BOOLEAN :
                Start(GptConfig(0, ign, 1, FALSE, FALSE, 2, 0, DiskGuid(0)),
                      [k \in 1..n |-> Part(IF k = 1 THEN st ELSE 0,
                                           IF ign /\ k = n THEN 0 ELSE 1,
                                           FALSE, FALSE, <<>>, FALSE)])

SpecFiller == InitFiller /\ [][NextGpt]_vars

(* the entry for the gap was made *)
HasGapEntry ==
    /\ PartsAt(0).start # 0
    /\ PartsAt(0).actual_start > gpt_first_entry_sector + GPT_SIZE

(* C12: on every GPT run that succeeds, with up to 128 requests, slot k  *)
(* of every entry array written describes the non-skipped request k with *)
(* its start and inclusive end (and its type); the entry for the gap in  *)
(* the last slot replaces no such entry, and its range                    *)
(* first_usable .. first start - 1 overlaps no partition.                 *)
C12_SlotsKeepRequests ==
    (use_guid_partition_table /\ pc = "done" /\ ret = 0) =>
        \A a \in 1..Len(Records("gpte")) :
            LET tab == Records("gpte")[a].val
            IN  /\ \A k \in NonSkipped :
                      /\ k \in DOMAIN tab
                      /\ tab[k].start = PartsAt(k).actual_start
                      /\ tab[k].end = PartsAt(k).actual_start + PartsAt(k).size * 2 - 1
                      /\ tab[k].type = PartsAt(k).guid
                /\ HasGapEntry =>
                      /\ (GPT_ENTRY_MAX - 1) \in DOMAIN tab
                      /\ tab[GPT_ENTRY_MAX - 1].start = gpth.first_usable
                      /\ tab[GPT_ENTRY_MAX - 1].end = PartsAt(0).actual_start - 1
                      /\ \A k \in NonSkipped :
                            tab[GPT_ENTRY_MAX - 1].end < PartsAt(k).actual_start

(* 128 requests, the first at sector 80: the array written has the entry *)
(* for the gap 34 .. 79 in slot 127, and nothing of the range 334 .. 335 *)
(* request 127 was given                                                  *)
C12_GapEntryInRequestSlot ==
    /\ pc = "done" /\ ret = 0 /\ nr = GPT_ENTRY_MAX
    /\ PartsAt(GPT_ENTRY_MAX - 1).size # 0
    /\ PartsAt(GPT_ENTRY_MAX - 1).actual_start = 334
    /\ Len(Records("gpte")) = 1
    /\ Records("gpte")[1].val[GPT_ENTRY_MAX - 1].type = GUID_PARTITION_BIOS_BOOT
    /\ Records("gpte")[1].val[GPT_ENTRY_MAX - 1].start = 34
    /\ Records("gpte")[1].val[GPT_ENTRY_MAX - 1].end = 79

====
